---- MODULE Spec2Model ----
(***************************************************************************)
(* Model of scripts/qa_runner.py: the QARunner class (prerequisite probes, *)
(* conditional 'tofu init', the sequential check loop, _run_check with its *)
(* JSON output normalisation, the two report renderings) and main().       *)
(*                                                                         *)
(* Text that the code inspects character by character (a process's stdout, *)
(* a CheckResult's output) is a sequence of one-character strings.  Text   *)
(* that the code only stores and copies (stderr, error messages) is a      *)
(* string.  Optional values are <<>> (None) or <<v>>.                      *)
(***************************************************************************)
EXTENDS Integers, Sequences, FiniteSets, TLC

VARIABLES
    cmdline,        \* environment: the command line the host process was started with
    argv,           \* sys.argv
    target,         \* QARunner.target (the path main hands to QARunner)
    output_format,  \* main's output_format
    pc,             \* position of the control thread
    probes,         \* environment: outcome of each tool's version probe
    tool_status,    \* value returned by check_prerequisites (Optional)
    missing,        \* main's `missing` (Optional list of tool names)
    marker,         \* environment: target/.terraform exists
    init_proc,      \* environment: outcome of the 'tofu init' process (Optional)
    init_ok,        \* value returned by run_init_if_needed (Optional)
    results,        \* QARunner.results, a dict kept as a sequence in insertion order
    idx,            \* number of CHECKS entries the loop of run_all has completed
    inflight,       \* the check whose subprocess is running (Optional)
    invoked,        \* names of the checks whose command was launched, in launch order
    stdout_log,     \* what run_all printed
    start_time,     \* QARunner.start_time (Optional)
    end_time,       \* QARunner.end_time (Optional)
    now,            \* the wall clock read by datetime.now()
    report,         \* the last report rendered (Optional)
    prev_report,    \* the report rendered before that one (Optional)
    exit_code,      \* the host process's exit status (Optional)
    raised,         \* the exception that left the running function (Optional)
    call,           \* arguments of a direct _run_check call (Optional)
    ret             \* value returned by a direct _run_check call (Optional)

vars == <<cmdline, argv, target, output_format, pc, probes, tool_status, missing, marker, init_proc,
          init_ok, results, idx, inflight, invoked, stdout_log, start_time,
          end_time, now, report, prev_report, exit_code, raised, call, ret>>

None == <<>>
Some(v) == <<v>>

(***************************************************************************)
(* Bounds of the model.                                                    *)
(***************************************************************************)
\* longest stdout text enumerated for a direct _run_check call
MaxLen == 6
\* longest result map enumerated for the report generator
MaxResults == 3
\* largest elapsed time (whole seconds) of a process that exits by itself
MaxElapsed == 1
\* most calls of generate_json_report on one runner
MaxCalls == 2

(***************************************************************************)
(* Program constants.                                                      *)
(***************************************************************************)
CheckTimeout == 600
ProbeTimeout == 10
InitTimeout == 300
\* return_code of a CheckResult built by the two except branches of _run_check
Sentinel == 0 - 1
\* status subprocess reports for a child ended by signal 1 (SIGHUP): -signum
SigHupStatus == 0 - 1
\* nesting depth beyond which json.loads raises RecursionError, not
\* JSONDecodeError (the interpreter's recursion limit, scaled to the bounds)
RecursionLimit == 2

\* QARunner.CHECKS: (name, command, output_type); the description is unused
CHECKS ==
    << [name |-> "Format",   cmd |-> "tofu fmt -check -recursive", output_type |-> "text"],
       [name |-> "Validate", cmd |-> "tofu validate",              output_type |-> "text"],
       [name |-> "TFLint",   cmd |-> "tflint --format=json",       output_type |-> "json"],
       [name |-> "Trivy",    cmd |-> "trivy config . --severity CRITICAL,HIGH,MEDIUM --format json",
                                                                   output_type |-> "json"],
       [name |-> "Checkov",  cmd |-> "checkov -d . --framework terraform -o json --compact",
                                                                   output_type |-> "json"] >>

\* QARunner.REQUIRED_TOOLS, in dict (insertion) order
REQUIRED_TOOLS == << "tofu", "tflint", "trivy", "checkov" >>

CheckNames == [i \in 1..Len(CHECKS) |-> CHECKS[i].name]

(***************************************************************************)
(* str.strip(): drop leading and trailing whitespace.                      *)
(***************************************************************************)
Whitespace == {" ", "\n"}

RECURSIVE LStrip(_)
LStrip(s) ==
    IF s # <<>> /\ Head(s) \in Whitespace THEN LStrip(Tail(s)) ELSE s

RECURSIVE RStrip(_)
RStrip(s) ==
    IF s # <<>> /\ s[Len(s)] \in Whitespace
    THEN RStrip(SubSeq(s, 1, Len(s) - 1)) ELSE s

Strip(s) == RStrip(LStrip(s))

(***************************************************************************)
(* json.loads on the JSON fragment of arrays and integer literals.         *)
(* A value is [t |-> "num", n |-> Int] or [t |-> "arr", items |-> Seq].    *)
(* A parse returns [err, val, next]: err is "" on success, "decode" for    *)
(* json.JSONDecodeError and "recursion" for RecursionError.                *)
(***************************************************************************)
Digits == {"0", "1", "2", "3", "4", "5", "6", "7", "8", "9"}

DigitVal(c) ==
    CASE c = "0" -> 0 [] c = "1" -> 1 [] c = "2" -> 2 [] c = "3" -> 3
      [] c = "4" -> 4 [] c = "5" -> 5 [] c = "6" -> 6 [] c = "7" -> 7
      [] c = "8" -> 8 [] c = "9" -> 9

DigitChar(d) == << "0", "1", "2", "3", "4", "5", "6", "7", "8", "9" >>[d + 1]

Fail(kind) == [err |-> kind, val |-> [t |-> "none"], next |-> 0]

RECURSIVE SkipWs(_, _)
SkipWs(s, i) ==
    IF i <= Len(s) /\ s[i] \in Whitespace THEN SkipWs(s, i + 1) ELSE i

\* an integer literal starting at i: no leading zero before further digits
RECURSIVE ScanInt(_, _, _)
ScanInt(s, i, acc) ==
    IF i <= Len(s) /\ s[i] \in Digits
    THEN ScanInt(s, i + 1, acc * 10 + DigitVal(s[i]))
    ELSE [err |-> "", val |-> [t |-> "num", n |-> acc], next |-> i]

RECURSIVE ParseValue(_, _, _)
RECURSIVE ParseElems(_, _, _, _)

ParseValue(s, i, depth) ==
    IF i > Len(s) THEN Fail("decode")
    ELSE IF s[i] = "0" THEN [err |-> "", val |-> [t |-> "num", n |-> 0], next |-> i + 1]
    ELSE IF s[i] \in Digits THEN ScanInt(s, i, 0)
    ELSE IF s[i] = "["
         THEN IF depth + 1 > RecursionLimit THEN Fail("recursion")
              ELSE LET k == SkipWs(s, i + 1) IN
                   IF k <= Len(s) /\ s[k] = "]"
                   THEN [err |-> "", val |-> [t |-> "arr", items |-> <<>>], next |-> k + 1]
                   ELSE ParseElems(s, k, depth + 1, <<>>)
    ELSE Fail("decode")

ParseElems(s, i, depth, acc) ==
    LET v == ParseValue(s, i, depth) IN
    IF v.err # "" THEN v
    ELSE LET k == SkipWs(s, v.next) IN
         IF k > Len(s) THEN Fail("decode")
         ELSE IF s[k] = "]"
              THEN [err |-> "", val |-> [t |-> "arr", items |-> Append(acc, v.val)],
                    next |-> k + 1]
         ELSE IF s[k] = ","
              THEN ParseElems(s, SkipWs(s, k + 1), depth, Append(acc, v.val))
         ELSE Fail("decode")

\* json.loads(s): one value, surrounded by optional whitespace, then end of text
JsonLoads(s) ==
    LET v == ParseValue(s, SkipWs(s, 1), 0) IN
    IF v.err # "" THEN v
    ELSE IF SkipWs(s, v.next) = Len(s) + 1 THEN v
    ELSE Fail("decode")

(***************************************************************************)
(* json.dumps(v, indent=2).                                                *)
(***************************************************************************)
RECURSIVE IntChars(_)
IntChars(n) ==
    IF n < 10 THEN << DigitChar(n) >>
    ELSE IntChars(n \div 10) \o << DigitChar(n % 10) >>

RECURSIVE Spaces(_)
Spaces(n) == IF n = 0 THEN <<>> ELSE << " " >> \o Spaces(n - 1)

RECURSIVE JsonDumps(_, _)
RECURSIVE DumpItems(_, _, _)

JsonDumps(v, level) ==
    IF v.t = "num" THEN IntChars(v.n)
    ELSE IF v.items = <<>> THEN << "[", "]" >>
    ELSE << "[" >> \o DumpItems(v.items, 1, level + 1)
                  \o << "\n" >> \o Spaces(2 * level) \o << "]" >>

DumpItems(items, k, level) ==
    << "\n" >> \o Spaces(2 * level) \o JsonDumps(items[k], level)
        \o (IF k = Len(items) THEN <<>>
            ELSE << "," >> \o DumpItems(items, k + 1, level))

(***************************************************************************)
(* The outcome of one subprocess.run call, chosen by the environment:      *)
(*   "exit"    the child terminated by itself (returncode, stdout, stderr) *)
(*   "timeout" subprocess.TimeoutExpired                                   *)
(*   "notfound" FileNotFoundError (executable or working directory)        *)
(*   "oserror" any other exception of launch or wait (PermissionError...)  *)
(***************************************************************************)
Exited(rc, out, err, secs) ==
    [kind |-> "exit", returncode |-> rc, stdout |-> out, stderr |-> err, elapsed |-> secs]

Failed(kind, msg, secs) ==
    [kind |-> kind, returncode |-> 0, stdout |-> <<>>, stderr |-> msg, elapsed |-> secs]

TimedOut(limit) == Failed("timeout", "", limit)
NotFound == Failed("notfound", "[Errno 2] No such file or directory", 0)
PermissionDenied == Failed("oserror", "[Errno 13] Permission denied", 0)

(***************************************************************************)
(* QARunner._run_check                                                     *)
(***************************************************************************)
\* lines 215-221: the output field after a normal exit
NormalizeOutput(output_type, stdout) ==
    IF output_type = "json" /\ Strip(stdout) # <<>>
    THEN LET parsed == JsonLoads(stdout) IN
         IF parsed.err = "" THEN Some(JsonDumps(parsed.val, 0))
         ELSE IF parsed.err = "decode" THEN Some(stdout)
         ELSE None   \* not a JSONDecodeError: leaves the inner try
    ELSE Some(stdout)

CheckResult(name, passed, output, errors, return_code, duration) ==
    [name |-> name, passed |-> passed, output |-> output, errors |-> errors,
     return_code |-> return_code, duration_seconds |-> duration]

RunCheck(name, output_type, proc) ==
    IF proc.kind = "exit"
    THEN LET output == NormalizeOutput(output_type, proc.stdout) IN
         IF output # None
         THEN CheckResult(name, proc.returncode = 0, output[1], proc.stderr,
                          proc.returncode, proc.elapsed)
         ELSE \* except Exception
              CheckResult(name, FALSE, <<>>, "maximum recursion depth exceeded",
                          Sentinel, proc.elapsed)
    ELSE IF proc.kind = "timeout"
    THEN CheckResult(name, FALSE, <<>>,
                     "Check timed out after " \o ToString(proc.elapsed) \o ".0 seconds",
                     Sentinel, proc.elapsed)
    ELSE \* except Exception
         CheckResult(name, FALSE, <<>>, proc.stderr, Sentinel, proc.elapsed)

(***************************************************************************)
(* dict operations on a map kept as a sequence of [key, value] entries in  *)
(* insertion order.                                                        *)
(***************************************************************************)
Keys(d) == [i \in 1..Len(d) |-> d[i].key]

\* DictSet with a new key put first instead of last
DictSetFront(d, key, value) ==
    IF \E i \in 1..Len(d) : d[i].key = key
    THEN [i \in 1..Len(d) |-> IF d[i].key = key THEN [key |-> key, value |-> value] ELSE d[i]]
    ELSE << [key |-> key, value |-> value] >> \o d

\* d[key] = value: an existing key keeps its position, a new key goes last
DictSet(d, key, value) ==
    IF \E i \in 1..Len(d) : d[i].key = key
    THEN [i \in 1..Len(d) |-> IF d[i].key = key THEN [key |-> key, value |-> value] ELSE d[i]]
    ELSE Append(d, [key |-> key, value |-> value])

\* all(r.passed for r in results.values())
AllPassed(d) == \A i \in 1..Len(d) : d[i].value.passed

\* sum(1 for r in results.values() if r.passed)
RECURSIVE CountPassed(_, _)
CountPassed(d, i) ==
    IF i > Len(d) THEN 0
    ELSE (IF d[i].value.passed THEN 1 ELSE 0) + CountPassed(d, i + 1)

(***************************************************************************)
(* QARunner.check_prerequisites and get_missing_tools.                     *)
(* p maps each tool to the outcome of its version probe.  subprocess.run   *)
(* with check=True raises CalledProcessError on a non-zero exit; the       *)
(* except clause names CalledProcessError, FileNotFoundError and           *)
(* TimeoutExpired.                                                         *)
(***************************************************************************)
ProbeCaught(proc) ==
    \/ proc.kind = "exit" /\ proc.returncode # 0
    \/ proc.kind = "notfound"
    \/ proc.kind = "timeout"

ProbeOk(proc) == proc.kind = "exit" /\ proc.returncode = 0

RECURSIVE ProbeLoop(_, _, _)
\* returns [raised, tool_status]: the loop stops at the first uncaught exception
ProbeLoop(p, i, acc) ==
    IF i > Len(REQUIRED_TOOLS) THEN [raised |-> None, tool_status |-> Some(acc)]
    ELSE LET tool == REQUIRED_TOOLS[i] IN
         IF ProbeOk(p[tool]) THEN ProbeLoop(p, i + 1, DictSet(acc, tool, TRUE))
         ELSE IF ProbeCaught(p[tool]) THEN ProbeLoop(p, i + 1, DictSet(acc, tool, FALSE))
         ELSE [raised |-> Some("PermissionError"), tool_status |-> None]

CheckPrerequisites(p) == ProbeLoop(p, 1, <<>>)

RECURSIVE MissingLoop(_, _)
\* [tool for tool, available in status.items() if not available]
MissingLoop(status, i) ==
    IF i > Len(status) THEN <<>>
    ELSE (IF ~status[i].value THEN << status[i].key >> ELSE <<>>)
             \o MissingLoop(status, i + 1)

MissingOf(status) == MissingLoop(status, 1)

(***************************************************************************)
(* QARunner.generate_json_report: the dict handed to json.dumps.           *)
(***************************************************************************)
\* JsonCheckEntry with the errors text kept for a passing check
JsonCheckEntryKeepErrors(name, r) ==
    [name |-> name,
     passed |-> r.passed,
     return_code |-> r.return_code,
     duration_seconds |-> r.duration_seconds,
     errors |-> Some(r.errors)]

JsonCheckEntry(name, r) ==
    [name |-> name,
     passed |-> r.passed,
     return_code |-> r.return_code,
     duration_seconds |-> r.duration_seconds,
     errors |-> IF ~r.passed THEN Some(r.errors) ELSE None]

GenerateJsonReport(tgt, res, clock) ==
    [kind |-> "json",
     target |-> tgt,
     generated |-> clock,
     summary |-> [passed |-> CountPassed(res, 1),
                  total |-> Len(res),
                  all_passed |-> AllPassed(res)],
     checks |-> [i \in 1..Len(res) |-> JsonCheckEntry(res[i].key, res[i].value)]]

(***************************************************************************)
(* QARunner.generate_report: the header, the summary line, the total       *)
(* duration and the status table of the markdown document.                 *)
(***************************************************************************)
GenerateReport(tgt, res, started, ended, clock) ==
    [kind |-> "markdown",
     target |-> tgt,
     generated |-> clock,
     summary |-> [passed |-> CountPassed(res, 1), total |-> Len(res)],
     total_duration |-> IF started # None /\ ended # None
                        THEN Some(ended[1] - started[1]) ELSE None,
     table |-> [i \in 1..Len(res) |->
                   [name |-> res[i].key, passed |-> res[i].value.passed,
                    duration_seconds |-> res[i].value.duration_seconds]]]

(***************************************************************************)
(* The environment of a run of main().                                     *)
(***************************************************************************)
Prog == "qa_runner.py"

Cmdlines ==
    { << Prog >>,
      << Prog, "--json" >>,
      << Prog, "infra" >>,
      << Prog, "infra", "--json" >>,
      << Prog, "--json", "infra" >> }

ToolSet == {REQUIRED_TOOLS[i] : i \in 1..Len(REQUIRED_TOOLS)}

ProbeOutcomes ==
    { Exited(0, <<>>, "", 0),
      Exited(1, <<>>, "", 0),
      TimedOut(ProbeTimeout),
      NotFound,
      PermissionDenied }

InitOutcomes ==
    { Exited(0, <<>>, "", 1),
      Exited(1, <<>>, "Error: Failed to install provider", 1),
      TimedOut(InitTimeout),
      NotFound,
      PermissionDenied }

CheckOutcomes ==
    { Exited(0, << "[", "1", "]" >>, "", 0),
      Exited(2, <<>>, "bad thing", 1),
      Exited(SigHupStatus, <<>>, "", 0),
      TimedOut(CheckTimeout),
      NotFound }

\* list.remove(x): drop the first occurrence of x
RECURSIVE Remove(_, _)
Remove(s, x) ==
    IF s = <<>> THEN <<>>
    ELSE IF Head(s) = x THEN Tail(s)
    ELSE << Head(s) >> \o Remove(Tail(s), x)

Contains(s, x) == \E i \in 1..Len(s) : s[i] = x

(***************************************************************************)
(* main()                                                                  *)
(***************************************************************************)
\* QARunner.__init__: the fields of a fresh runner
Constructed ==
    /\ results = <<>>
    /\ start_time = None
    /\ end_time = None

InitMain ==
    /\ cmdline \in Cmdlines
    /\ argv = cmdline
    /\ target = None
    /\ output_format = "markdown"
    /\ pc = "main"
    /\ probes = None
    /\ tool_status = None
    /\ missing = None
    /\ marker = None
    /\ init_proc = None
    /\ init_ok = None
    /\ Constructed
    /\ idx = 0
    /\ inflight = None
    /\ invoked = <<>>
    /\ stdout_log = <<>>
    /\ now = 0
    /\ report = None
    /\ prev_report = None
    /\ exit_code = None
    /\ raised = None
    /\ call = None
    /\ ret = None

\* an exception nobody catches ends the interpreter with status 1
Crash(exc) ==
    /\ raised' = Some(exc)
    /\ exit_code' = Some(1)
    /\ pc' = "done"

\* lines 400-409: target, output_format, runner = QARunner(target)
ParseArgs ==
    /\ pc = "main"
    /\ target' = Some(IF Len(argv) > 1 THEN argv[2] ELSE ".")
    /\ IF Contains(argv, "--json")
       THEN output_format' = "json" /\ argv' = Remove(argv, "--json")
       ELSE UNCHANGED <<output_format, argv>>
    /\ pc' = "prereq"
    /\ UNCHANGED <<cmdline, probes, tool_status, missing, marker, init_proc, init_ok,
                   results, idx, inflight, invoked, stdout_log, start_time, end_time,
                   now, report, prev_report, exit_code, raised, call, ret>>

\* lines 412-420: missing = runner.get_missing_tools(); exit 1 if any
GetMissingTools ==
    /\ pc = "prereq"
    /\ \E p \in [ToolSet -> ProbeOutcomes] :
         LET got == CheckPrerequisites(p) IN
         /\ probes' = Some(p)
         /\ tool_status' = got.tool_status
         /\ IF got.raised # None
            THEN /\ Crash(got.raised[1])
                 /\ UNCHANGED missing
            ELSE LET m == MissingOf(got.tool_status[1]) IN
                 /\ missing' = Some(m)
                 /\ IF m # <<>>
                    THEN exit_code' = Some(1) /\ pc' = "done"
                    ELSE exit_code' = exit_code /\ pc' = "run_all"
                 /\ UNCHANGED raised
    /\ UNCHANGED <<cmdline, argv, target, output_format, marker, init_proc, init_ok,
                   results, idx, inflight, invoked, stdout_log, start_time, end_time,
                   now, report, prev_report, call, ret>>

\* run_init_if_needed: [raised, ok, log] for a marker and an init outcome
RunInitIfNeeded(exists, proc) ==
    IF exists THEN [raised |-> None, ok |-> Some(TRUE), log |-> <<>>]
    ELSE IF proc.kind = "exit"
         THEN IF proc.returncode # 0
              THEN [raised |-> None, ok |-> Some(FALSE),
                    log |-> << "Running 'tofu init'", "Warning: tofu init failed" >>]
              ELSE [raised |-> None, ok |-> Some(TRUE), log |-> << "Running 'tofu init'" >>]
    ELSE IF proc.kind = "timeout"
         THEN [raised |-> None, ok |-> Some(FALSE),
               log |-> << "Running 'tofu init'", "Warning: tofu init failed" >>]
    ELSE [raised |-> Some(IF proc.kind = "notfound" THEN "FileNotFoundError"
                          ELSE "PermissionError"),
          ok |-> None, log |-> << "Running 'tofu init'" >>]

\* lines 171-174: start_time, then run_init_if_needed
BeginRunAll ==
    /\ pc = "run_all"
    /\ start_time' = Some(now)
    /\ \E exists \in BOOLEAN :
         /\ marker' = Some(exists)
         /\ \E proc \in InitOutcomes :
              LET got == RunInitIfNeeded(exists, proc) IN
              /\ init_proc' = IF exists THEN None ELSE Some(proc)
              /\ now' = IF exists THEN now ELSE now + proc.elapsed
              /\ init_ok' = got.ok
              /\ stdout_log' = stdout_log \o got.log
              /\ IF got.raised # None
                 THEN Crash(got.raised[1])
                 ELSE pc' = "checks" /\ UNCHANGED <<raised, exit_code>>
    /\ UNCHANGED <<cmdline, argv, target, output_format, probes, tool_status, missing,
                   results, idx, inflight, invoked, end_time, report, prev_report,
                   call, ret>>

\* lines 176-177 and 205: the loop takes the next entry and launches its command
StartCheck ==
    /\ pc = "checks"
    /\ idx < Len(CHECKS)
    /\ stdout_log' = Append(stdout_log, "Running " \o CHECKS[idx + 1].name \o "... ")
    /\ invoked' = Append(invoked, CHECKS[idx + 1].name)
    /\ inflight' = Some(CHECKS[idx + 1].name)
    /\ pc' = "waiting"
    /\ UNCHANGED <<cmdline, argv, target, output_format, probes, tool_status, missing,
                   marker, init_proc, init_ok, results, idx, start_time, end_time, now,
                   report, prev_report, exit_code, raised, call, ret>>

\* FinishCheck with the loop left at the first check that does not pass
FinishCheckStopOnFail ==
    /\ pc = "waiting"
    /\ \E proc \in CheckOutcomes :
         LET c == CHECKS[idx + 1]
             r == RunCheck(c.name, c.output_type, proc) IN
         /\ results' = DictSet(results, c.name, r)
         /\ stdout_log' = Append(stdout_log, IF r.passed THEN "PASS" ELSE "FAIL")
         /\ now' = now + proc.elapsed
         /\ idx' = IF r.passed THEN idx + 1 ELSE Len(CHECKS)
    /\ inflight' = None
    /\ pc' = "checks"
    /\ UNCHANGED <<cmdline, argv, target, output_format, probes, tool_status, missing,
                   marker, init_proc, init_ok, invoked, start_time, end_time,
                   report, prev_report, exit_code, raised, call, ret>>

\* lines 178-180: _run_check returns, the result is stored, PASS/FAIL is printed
FinishCheck ==
    /\ pc = "waiting"
    /\ \E proc \in CheckOutcomes :
         LET c == CHECKS[idx + 1]
             r == RunCheck(c.name, c.output_type, proc) IN
         /\ results' = DictSet(results, c.name, r)
         /\ stdout_log' = Append(stdout_log, IF r.passed THEN "PASS" ELSE "FAIL")
         /\ now' = now + proc.elapsed
    /\ idx' = idx + 1
    /\ inflight' = None
    /\ pc' = "checks"
    /\ UNCHANGED <<cmdline, argv, target, output_format, probes, tool_status, missing,
                   marker, init_proc, init_ok, invoked, start_time, end_time,
                   report, prev_report, exit_code, raised, call, ret>>

\* lines 182-183: the loop is exhausted, end_time, return
EndRunAll ==
    /\ pc = "checks"
    /\ idx = Len(CHECKS)
    /\ end_time' = Some(now)
    /\ pc' = "report"
    /\ UNCHANGED <<cmdline, argv, target, output_format, probes, tool_status, missing,
                   marker, init_proc, init_ok, results, idx, inflight, invoked,
                   stdout_log, start_time, now, report, prev_report, exit_code,
                   raised, call, ret>>

\* lines 431-439: render the chosen report, exit 0 iff every result passed
ReportAndExit ==
    /\ pc = "report"
    /\ report' = Some(IF output_format = "json"
                      THEN GenerateJsonReport(target[1], results, now)
                      ELSE GenerateReport(target[1], results, start_time, end_time, now))
    /\ prev_report' = report
    /\ exit_code' = Some(IF AllPassed(results) THEN 0 ELSE 1)
    /\ pc' = "done"
    /\ UNCHANGED <<cmdline, argv, target, output_format, probes, tool_status, missing,
                   marker, init_proc, init_ok, results, idx, inflight, invoked,
                   stdout_log, start_time, end_time, now, raised, call, ret>>

Init == InitMain

Next ==
    \/ ParseArgs
    \/ GetMissingTools
    \/ BeginRunAll
    \/ StartCheck
    \/ FinishCheck
    \/ EndRunAll
    \/ ReportAndExit

Spec == Init /\ [][Next]_vars

(***************************************************************************)
(* Direct calls of _run_check (run_all and run_prowler are its callers):   *)
(* every output type against every process outcome, with every stdout text *)
(* over Alphabet of at most MaxLen characters.                             *)
(***************************************************************************)
Alphabet == {"[", "]", ",", "1", " "}

\* the texts of at most len characters
StdoutTexts(len) == UNION {[1..n -> Alphabet] : n \in 0..len}

StderrOf(rc) == IF rc = 0 THEN "" ELSE "bad thing"

DirectOutcomes(len, maxsecs) ==
    { Exited(rc, out, StderrOf(rc), secs) :
        rc \in {0, 2, SigHupStatus}, out \in StdoutTexts(len), secs \in 0..maxsecs }
    \cup { TimedOut(CheckTimeout), NotFound, PermissionDenied }

DirectCallers ==
    { [name |-> CHECKS[1].name, output_type |-> CHECKS[1].output_type],
      [name |-> "Prowler", output_type |-> "json"] }

\* everything main() owns, at rest
NoMain ==
    /\ cmdline = << Prog >>
    /\ argv = << Prog >>
    /\ target = Some(".")
    /\ output_format = "markdown"
    /\ probes = None
    /\ tool_status = None
    /\ missing = None
    /\ marker = None
    /\ init_proc = None
    /\ init_ok = None
    /\ idx = 0
    /\ inflight = None
    /\ invoked = <<>>
    /\ stdout_log = <<>>
    /\ exit_code = None
    /\ raised = None

InitCheck ==
    /\ NoMain
    /\ Constructed
    /\ pc = "call"
    /\ now = 0
    /\ report = None
    /\ prev_report = None
    /\ \E c \in DirectCallers, proc \in DirectOutcomes(MaxLen, MaxElapsed) :
         call = Some([name |-> c.name, output_type |-> c.output_type, proc |-> proc])
    /\ ret = None

\* lines 185-250: one call of _run_check
DirectRunCheck ==
    /\ pc = "call"
    /\ ret' = Some(RunCheck(call[1].name, call[1].output_type, call[1].proc))
    /\ now' = now + call[1].proc.elapsed
    /\ pc' = "returned"
    /\ UNCHANGED <<cmdline, argv, target, output_format, probes, tool_status, missing,
                   marker, init_proc, init_ok, results, idx, inflight, invoked,
                   stdout_log, start_time, end_time, report, prev_report, exit_code,
                   raised, call>>

NextCheck == DirectRunCheck

SpecCheck == InitCheck /\ [][NextCheck]_vars

(***************************************************************************)
(* Calls of generate_json_report on a runner whose result map holds the    *)
(* results of the first n checks, n <= MaxResults.                         *)
(***************************************************************************)
RECURSIVE ResultMaps(_)
ResultMaps(n) ==
    IF n = 0 THEN { <<>> }
    ELSE { DictSet(d, CHECKS[n].name, RunCheck(CHECKS[n].name, CHECKS[n].output_type, proc)) :
             d \in ResultMaps(n - 1), proc \in CheckOutcomes }

InitReport ==
    /\ NoMain
    /\ pc = "idle"
    /\ now = 0
    /\ \E n \in 0..MaxResults :
         /\ results \in ResultMaps(n)
         /\ start_time = IF n = 0 THEN None ELSE Some(0)
    /\ end_time = None
    /\ report = None
    /\ prev_report = None
    /\ call = None
    /\ ret = None

\* lines 370-394: one call of generate_json_report
CallGenerateJsonReport ==
    /\ pc = "idle"
    /\ now < MaxCalls
    /\ report' = Some(GenerateJsonReport(target[1], results, now))
    /\ prev_report' = report
    /\ now' = now + 1
    /\ UNCHANGED <<cmdline, argv, target, output_format, pc, probes, tool_status, missing,
                   marker, init_proc, init_ok, results, idx, inflight, invoked,
                   stdout_log, start_time, end_time, exit_code, raised, call, ret>>

NextReport == CallGenerateJsonReport

SpecReport == InitReport /\ [][NextReport]_vars

(***************************************************************************)
(* Properties.                                                             *)
(***************************************************************************)
HasValue(d, Test(_)) == \E i \in 1..Len(d) : Test(d[i].value)
IsPass(r) == r.passed
IsSentinel(r) == r.return_code = Sentinel /\ ~r.passed
IsRealFailure(r) == r.return_code = 2

\* C1: once run_all has returned, the keys of the result map, in insertion
\* order, are exactly the names of CHECKS in registry order, whatever the
\* outcome of each check.
C1_KeysAreRegistry ==
    end_time # None => Keys(results) = CheckNames

C1_Witness ==
    /\ end_time # None
    /\ HasValue(results, IsPass)
    /\ HasValue(results, IsSentinel)
    /\ HasValue(results, IsRealFailure)

StatusLines == {i \in 1..Len(stdout_log) : stdout_log[i] \in {"PASS", "FAIL"}}

C2_State ==
    /\ invoked = SubSeq(CheckNames, 1, Len(invoked))
    /\ Len(results) = idx
    /\ Cardinality(StatusLines) = idx
    /\ inflight # None => Len(invoked) = idx + 1 /\ inflight[1] = CheckNames[idx + 1]
    /\ inflight = None => Len(invoked) = idx
    /\ end_time # None => invoked = CheckNames

C2_Step ==
    /\ pc = "waiting" => pc' = "checks" /\ idx' = idx + 1 /\ invoked' = invoked
    /\ pc = "checks" /\ idx < Len(CHECKS) =>
           pc' = "waiting" /\ invoked' = Append(invoked, CheckNames[idx + 1])

\* C2: within one run_all the checks are launched in registry order, each
\* exactly once, the next one only after the previous one has stored its
\* result and printed PASS or FAIL; whatever the outcome of a check, the loop
\* goes on to the next entry, and run_all returns only after all were launched.
C2_SequentialOnceNoEarlyExit ==
    []C2_State /\ [][C2_Step]_vars

C2_Witness ==
    /\ pc = "waiting"
    /\ idx = 3
    /\ IsSentinel(results[1].value)
    /\ results[1].value.errors = "Check timed out after 600.0 seconds"
    /\ IsRealFailure(results[2].value)
    /\ results[3].value.errors = NotFound.stderr

\* C3: a _run_check call returns a CheckResult and does not raise; after a
\* normal exit passed = (return_code = 0) and return_code is the exit status
\* of the process; after a timeout or a launch failure passed is false,
\* return_code is -1 and output is empty.
C3_ResultShape ==
    pc = "returned" =>
        /\ ret # None
        /\ raised = None
        /\ LET r == ret[1]
               proc == call[1].proc IN
           IF proc.kind = "exit"
           THEN r.passed = (r.return_code = 0) /\ r.return_code = proc.returncode
           ELSE ~r.passed /\ r.return_code = 0 - 1 /\ r.output = <<>>

InitFailed == init_proc # None /\ ~ProbeOk(init_proc[1])

\* C4: when .terraform is absent and 'tofu init' fails in any way, run_init_if_needed
\* returns False without raising and run_all still launches every check and
\* returns the full result map.
C4_InitFailureContinues ==
    pc = "done" /\ InitFailed =>
        /\ raised = None
        /\ init_ok = Some(FALSE)
        /\ invoked = CheckNames
        /\ Keys(results) = CheckNames

Unavailable(p) == {t \in ToolSet : ~ProbeOk(p[t])}

\* C5: check_prerequisites does not raise and returns an entry for every tool
\* of REQUIRED_TOOLS, True exactly for the tools whose probe exited with
\* status 0 in time; get_missing_tools returns exactly the other tools.
C5_ProbesNeverRaise ==
    probes # None =>
        /\ tool_status # None
        /\ Keys(tool_status[1]) = REQUIRED_TOOLS
        /\ \A i \in 1..Len(tool_status[1]) :
              tool_status[1][i].value = ProbeOk(probes[1][tool_status[1][i].key])
        /\ missing # None
        /\ {missing[1][i] : i \in 1..Len(missing[1])} = Unavailable(probes[1])

\* C6: main exits with 1 before init or any check when a required tool is
\* missing, leaving the result map empty; otherwise every check runs and main
\* exits with 0 if every result passed and with 1 if not.
C6_ExitCode ==
    pc = "done" =>
        IF Unavailable(probes[1]) # {}
        THEN /\ exit_code = Some(1)
             /\ results = <<>>
             /\ invoked = <<>>
             /\ marker = None
             /\ init_proc = None
        ELSE /\ invoked = CheckNames
             /\ Keys(results) = CheckNames
             /\ exit_code = Some(IF \A i \in 1..Len(results) : results[i].value.passed
                                 THEN 0 ELSE 1)

\* C7: a result of _run_check has return_code -1 if and only if the call
\* timed out or failed to launch; a process that terminated by itself, also
\* one ended by a signal, never yields return_code -1.
C7_SentinelDistinct ==
    pc = "returned" =>
        (ret[1].return_code = 0 - 1 <=> call[1].proc.kind # "exit")

\* C8: after a normal exit, output is the raw stdout for type "text"; for type
\* "json" with stdout that parses it is the 2-space-indented serialisation,
\* which parses back to the same value; for type "json" with stdout that does
\* not parse it is the raw stdout, with passed and return_code taken from the
\* exit status; for empty stdout it is empty.
C8_OutputNormalization ==
    pc = "returned" /\ call[1].proc.kind = "exit" =>
        LET r == ret[1]
            proc == call[1].proc
            parsed == JsonLoads(proc.stdout) IN
        /\ call[1].output_type = "text" => r.output = proc.stdout
        /\ call[1].output_type = "json" /\ Strip(proc.stdout) # <<>> /\ parsed.err = "" =>
              /\ r.output = JsonDumps(parsed.val, 0)
              /\ JsonLoads(r.output).err = ""
              /\ JsonLoads(r.output).val = parsed.val
        /\ call[1].output_type = "json" /\ Strip(proc.stdout) # <<>> /\ parsed.err # "" =>
              /\ r.output = proc.stdout
              /\ r.return_code = proc.returncode
              /\ r.passed = (proc.returncode = 0)
        /\ proc.stdout = <<>> => r.output = <<>>

C9_State ==
    report # None =>
        LET rep == report[1]
            n == Len(results) IN
        /\ rep.summary.passed = Cardinality({i \in 1..n : results[i].value.passed})
        /\ rep.summary.total = n
        /\ rep.summary.all_passed = (rep.summary.passed = rep.summary.total)
        /\ Len(rep.checks) = n
        /\ \A i \in 1..n :
              /\ rep.checks[i].name = results[i].key
              /\ rep.checks[i].passed = results[i].value.passed
              /\ rep.checks[i].errors =
                    IF results[i].value.passed THEN None ELSE Some(results[i].value.errors)
        /\ prev_report # None =>
              /\ prev_report[1].summary = rep.summary
              /\ prev_report[1].checks = rep.checks

C9_Step ==
    /\ results' = results
    /\ start_time' = start_time
    /\ end_time' = end_time

\* C9: the summary of generate_json_report counts the passing results, the
\* results, and says all_passed iff the two counts agree; checks has one
\* entry per result in result-map order, its errors null for a passing check
\* and the stored error text otherwise; a call changes neither the result map
\* nor start_time/end_time, and a second call gives the same summary and checks.
C9_JsonReport ==
    []C9_State /\ [][C9_Step]_vars

C9_Witness ==
    /\ report # None
    /\ prev_report # None
    /\ prev_report[1].generated # report[1].generated
    /\ Len(results) = MaxResults
    /\ report[1].summary.passed = 1
    /\ HasValue(results, IsSentinel)
    /\ HasValue(results, IsRealFailure)

RECURSIVE Positionals(_, _)
\* the arguments after the program name that are not the --json flag
Positionals(line, i) ==
    IF i > Len(line) THEN <<>>
    ELSE (IF line[i] = "--json" THEN <<>> ELSE << line[i] >>) \o Positionals(line, i + 1)

\* C10: main renders JSON iff --json is on the command line, and the target
\* is the positional argument if there is one and "." if there is none,
\* wherever --json stands.
C10_ArgumentParsing ==
    pc # "main" =>
        /\ output_format = "json" <=> Contains(cmdline, "--json")
        /\ target = Some(IF Positionals(cmdline, 2) = <<>> THEN "."
                          ELSE Positionals(cmdline, 2)[1])

====
